---- MODULE Spec2Model ----
(***************************************************************************)
(* Model of djangobulk/bulk.py: insert_or_update_many, the bulk UPSERT of  *)
(* a list of Django objects through one PostgreSQL statement               *)
(*   WITH new_values AS (VALUES ...),                                      *)
(*        upsert AS (UPDATE ... FROM new_values ... RETURNING all columns) *)
(*   INSERT ... SELECT ... FROM new_values WHERE NOT EXISTS (... upsert)   *)
(* followed by transaction.commit_unless_managed().                         *)
(*                                                                         *)
(* The function's local variables are the frame variables below; the       *)
(* databases behind django.db.connections are the variable db.  The        *)
(* statement is kept as a record of its clauses and executed by the        *)
(* operators of the section "statement execution", which follow the        *)
(* PostgreSQL meaning of the text built at lines 101-120.                  *)
(***************************************************************************)
EXTENDS Integers, Sequences, FiniteSets

\* ------------------------------------------------------------------ bounds
MaxObjects == 2     \* longest list of objects passed in one call
MaxRows == 2        \* rows of the table before the first call
MaxCalls == 2       \* calls in one behaviour (the second repeats the first)
MaxOtherObjects == 1 \* longest list of objects of a call on the non-default database

\* ------------------------------------------------------------ input domains
None == "None"      \* Python's None, the value of a null attribute
NULL == "NULL"      \* SQL NULL, what the driver sends for None

\* Attribute values of the objects passed in, and the column values of the
\* rows the table holds before the first call (created at an earlier time).
SkuVals == {None, "A", "B"}
QtyVals == {"q1", "q2"}
CreatedVals == {"t1"}
StoredSkuVals == {NULL, "A"}
StoredQtyVals == {"q1"}
StoredCreatedVals == {"t0"}

Aliases == {"default", "other"}
DEFAULT_DB_ALIAS == "default"

\* Field descriptors (model._meta.fields): auto marks a models.AutoField.
IdField == [name |-> "id", auto |-> TRUE, db_type |-> "serial"]
SkuField == [name |-> "sku", auto |-> FALSE, db_type |-> "varchar"]
QtyField == [name |-> "qty", auto |-> FALSE, db_type |-> "integer"]
CreatedField == [name |-> "created", auto |-> FALSE, db_type |-> "timestamp"]

\* Two model classes: one with the implicit AutoField primary key, one whose
\* primary key is the (non-auto) sku field.
Widget == [db_table |-> "widget", pk |-> "id",
           fields |-> <<IdField, SkuField, QtyField, CreatedField>>]
Item == [db_table |-> "item", pk |-> "sku",
         fields |-> <<SkuField, QtyField, CreatedField>>]
Models == {Widget, Item}

\* An object of the model: its attribute values (the AutoField attribute is
\* never read by the function and is left out).
Objects == [sku : SkuVals, qty : QtyVals, created : CreatedVals]

\* keys=None and keys=[] are both falsy at line 39 and are both <<>> here.
KeyChoices == {<<>>, <<"sku">>, <<"sku", "qty">>, <<"nosuch">>}
SkipChoices == {<<>>, <<"created">>, <<"qty", "created">>}

\* ----------------------------------------------------------------- helpers
RECURSIVE SeqsUpTo(_, _)
SeqsUpTo(S, n) ==
    IF n = 0 THEN {<<>>}
    ELSE LET shorter == SeqsUpTo(S, n - 1)
         IN  shorter \cup {Append(s, x) : s \in {t \in shorter : Len(t) = n - 1}, x \in S}

Range(s) == {s[i] : i \in 1..Len(s)}

Names(fields) == [j \in 1..Len(fields) |-> fields[j].name]

\* ---------------------------------------------------------------- the code
\* _model_fields: the fields that are not AutoField.
_model_fields(m) == SelectSeq(m.fields, LAMBDA f : ~f.auto)

\* f.get_db_prep_save(f.pre_save(obj, True)): the attribute's value as the
\* driver sends it, None becoming NULL.
DbPrepSave(f, obj) == IF obj[f.name] = None THEN NULL ELSE obj[f.name]

\* _prep_values: one prepared value per field, in field order.
_prep_values(fields, obj) == [j \in 1..Len(fields) |-> DbPrepSave(fields[j], obj)]

\* line 39: keys = keys or [model._meta.pk.name]
KeysOrPk(m, ks) == IF ks = <<>> THEN <<m.pk>> ELSE ks

\* line 47
AllFieldNames(m) == Range(Names(_model_fields(m)))

\* Faulty variants of line 51: the first key name only; no test that the
\* field is among the non-auto fields.
KeyFieldsOf_FirstKeyOnly(m, ks) ==
    SelectSeq(m.fields, LAMBDA f : f.name = ks[1] /\ f.name \in AllFieldNames(m))

KeyFieldsOf_AnyField(m, ks) ==
    SelectSeq(m.fields, LAMBDA f : f.name \in Range(ks))

\* line 51
KeyFieldsOf(m, ks) ==
    SelectSeq(m.fields, LAMBDA f : f.name \in Range(ks) /\ f.name \in AllFieldNames(m))

\* Faulty variants of line 59: skip_for_update not consulted; keys not
\* consulted.
UpdateFieldsOf_IgnoresSkip(m, ks, skip) ==
    SelectSeq(m.fields, LAMBDA f : /\ f.name \notin Range(ks)
                                   /\ f.name \in AllFieldNames(m))

UpdateFieldsOf_KeepsKeys(m, ks, skip) ==
    SelectSeq(m.fields, LAMBDA f : /\ f.name \notin Range(skip)
                                   /\ f.name \in AllFieldNames(m))

\* line 59
UpdateFieldsOf(m, ks, skip) ==
    SelectSeq(m.fields, LAMBDA f : /\ f.name \notin Range(ks)
                                   /\ f.name \notin Range(skip)
                                   /\ f.name \in AllFieldNames(m))

\* line 64: "%s::<db_type>" for every field
TuplePlaceholder(all_fields) ==
    [j \in 1..Len(all_fields) |-> [marker |-> "%s", cast |-> all_fields[j].db_type]]

\* line 65: the tuple placeholder repeated len(objects) times
PlaceholdersOf(tuple_placeholder, n) == [i \in 1..n |-> tuple_placeholder]

\* lines 67-68: the prepared rows, flattened row by row
RECURSIVE Flatten(_)
Flatten(rows) == IF rows = <<>> THEN <<>> ELSE Head(rows) \o Flatten(Tail(rows))

\* Faulty variant of lines 67-68: flattened field by field.
ParametersOf_FieldMajor(all_fields, objs) ==
    Flatten([j \in 1..Len(all_fields) |->
                [i \in 1..Len(objs) |-> DbPrepSave(all_fields[j], objs[i])]])

ParametersOf(all_fields, objs) ==
    Flatten([i \in 1..Len(objs) |-> _prep_values(all_fields, objs[i])])

\* lines 101-120: the statement, clause by clause.  Column lists are kept as
\* sequences of column names; set_ holds the columns c of "c=nv.c", where_ the
\* columns of "m.c=nv.c", not_exists the columns of "up.c=new_values.c".
SqlOf(m, all_fields, key_flds, update_flds, phs) ==
    [new_values_cols |-> Names(all_fields),
     values          |-> phs,
     table           |-> m.db_table,
     set_            |-> Names(update_flds),
     where_          |-> Names(key_flds),
     insert_cols     |-> Names(all_fields),
     select_cols     |-> Names(all_fields),
     not_exists      |-> Names(key_flds)]

NoSql == [table |-> "none"]

\* ------------------------------------------------------ statement execution
\* What PostgreSQL does with the statement of lines 101-120 and its parameters.

\* The values a cast accepts; NULL is accepted by every cast.
TypeDomain(cast) ==
    CASE cast = "varchar" -> SkuVals \ {None}
      [] cast = "integer" -> QtyVals
      [] cast = "timestamp" -> CreatedVals \cup StoredCreatedVals
      [] OTHER -> {}

CastOk(v, cast) == v = NULL \/ v \in TypeDomain(cast)

\* a = b in SQL: never true when either side is NULL.
SqlEq(a, b) == a # NULL /\ b # NULL /\ a = b

ColIndex(cols, c) == CHOOSE j \in 1..Len(cols) : cols[j] = c

Columns(m) == Range(Names(m.fields))

\* The statement parses, every tuple of VALUES has one value per new_values
\* column, the k-th parameter fits the cast of the k-th placeholder, and every
\* column it names exists.  "SET" followed by no assignment and "WHERE"
\* followed by no condition are syntax errors.
StatementOk(m, q, params) ==
    /\ q.set_ # <<>>
    /\ q.where_ # <<>>
    /\ q.values # <<>>
    /\ \A i \in 1..Len(q.values) : Len(q.values[i]) = Len(q.new_values_cols)
    /\ Len(params) = Len(q.values) * Len(q.new_values_cols)
    /\ \A i \in 1..Len(q.values) : \A j \in 1..Len(q.new_values_cols) :
          CastOk(params[(i - 1) * Len(q.new_values_cols) + j], q.values[i][j].cast)
    /\ Range(q.set_) \subseteq (Columns(m) \cap Range(q.new_values_cols))
    /\ Range(q.where_) \subseteq (Columns(m) \cap Range(q.new_values_cols))
    /\ Range(q.not_exists) \subseteq (Columns(m) \cap Range(q.new_values_cols))
    /\ Range(q.insert_cols) \subseteq Columns(m)
    /\ Range(q.select_cols) \subseteq Range(q.new_values_cols)
    /\ Len(q.insert_cols) = Len(q.select_cols)

\* The rows of new_values: the k-th parameter is bound to the k-th placeholder.
NewValues(q, params) ==
    [i \in 1..Len(q.values) |->
        [c \in Range(q.new_values_cols) |->
            params[(i - 1) * Len(q.new_values_cols) + ColIndex(q.new_values_cols, c)]]]

\* Faulty variant of the join (lines 74-76, 111): NULL taken to equal NULL.
Matching_NullEqualsNull(t, nvs, cols, r) ==
    {i \in 1..Len(nvs) : \A c \in Range(cols) : t[r][c] = nvs[i][c]}

\* The new_values rows that join row r of the table under WHERE m.c=nv.c AND ...
Matching(t, nvs, cols, r) ==
    {i \in 1..Len(nvs) : \A c \in Range(cols) : SqlEq(t[r][c], nvs[i][c])}

\* UPDATE ... FROM: a target row that joins several new_values rows is updated
\* once, from one of them, and which one is not predictable.  A choice maps
\* every row of the table to the new_values row it is updated from, 0 for none.
RECURSIVE JoinChoices(_, _, _, _)
JoinChoices(t, nvs, cols, r) ==
    IF r = 0 THEN {<<>>}
    ELSE LET cands == IF Matching(t, nvs, cols, r) = {} THEN {0}
                      ELSE Matching(t, nvs, cols, r)
         IN  {Append(ch, i) : ch \in JoinChoices(t, nvs, cols, r - 1), i \in cands}

\* Faulty variant of the UPDATE (lines 108-111): rows that join nothing are
\* updated too, from the first new_values row.
ApplyUpdate_Unjoined(t, nvs, setcols, ch) ==
    [r \in 1..Len(t) |->
        [c \in DOMAIN t[r] |->
            IF c \in Range(setcols)
            THEN nvs[IF ch[r] = 0 THEN 1 ELSE ch[r]][c] ELSE t[r][c]]]

ApplyUpdate(t, nvs, setcols, ch) ==
    [r \in 1..Len(t) |->
        IF ch[r] = 0 THEN t[r]
        ELSE [c \in DOMAIN t[r] |->
                 IF c \in Range(setcols) THEN nvs[ch[r]][c] ELSE t[r][c]]]

\* RETURNING m.*: the updated rows, as updated.
Returning(t2, ch) == {t2[r] : r \in {x \in 1..Len(t2) : ch[x] # 0}}

\* Faulty variant of the INSERT (lines 114-119): the NOT EXISTS test left out.
ToInsert_All(nvs, ret, cols, n) == [k \in 1..n |-> k]

\* The new_values rows for which NOT EXISTS (SELECT 1 FROM upsert up WHERE
\* up.c=new_values.c AND ...) holds, in VALUES order.
RECURSIVE ToInsert(_, _, _, _)
ToInsert(nvs, ret, cols, n) ==
    IF n = 0 THEN <<>>
    ELSE LET before == ToInsert(nvs, ret, cols, n - 1)
         IN  IF \E up \in ret : \A c \in Range(cols) : SqlEq(up[c], nvs[n][c])
             THEN before ELSE Append(before, n)

\* INSERT INTO table (insert_cols) SELECT select_cols: a column that is not
\* listed takes its default, the next value of the sequence for a serial one.
InsertedRows(m, t2, nvs, idxs, q) ==
    [k \in 1..Len(idxs) |->
        [c \in Columns(m) |->
            IF c \in Range(q.insert_cols)
            THEN nvs[idxs[k]][q.select_cols[ColIndex(q.insert_cols, c)]]
            ELSE IF m.fields[ColIndex(Names(m.fields), c)].auto
                 THEN Len(t2) + k ELSE NULL]]

\* The primary key constraint: not null and unique.
\* (a serial primary key is filled from the sequence and always satisfies it)
PkOk(m, t) ==
    \/ m.fields[ColIndex(Names(m.fields), m.pk)].auto
    \/ /\ \A r \in 1..Len(t) : t[r][m.pk] # NULL
       /\ \A r1, r2 \in 1..Len(t) : t[r1][m.pk] = t[r2][m.pk] => r1 = r2

\* Every result the statement can have on table t: the table after it, the
\* join choice of the UPDATE and the new_values rows inserted.
ExecOutcomes(m, t, q, params) ==
    IF ~StatementOk(m, q, params) THEN {}
    ELSE LET nvs == NewValues(q, params)
         IN  {o \in {LET t2 == ApplyUpdate(t, nvs, q.set_, ch)
                         idxs == ToInsert(nvs, Returning(t2, ch), q.not_exists, Len(nvs))
                     IN  [table |-> t2 \o InsertedRows(m, t2, nvs, idxs, q),
                          choice |-> ch, inserted |-> idxs]
                     : ch \in JoinChoices(t, nvs, q.where_, Len(t))}
                : PkOk(m, o.table)}

\* ------------------------------------------------------------------- state
VARIABLES
    model,          \* the model class of the calls
    db,             \* connections[alias]: the model's table, a sequence of rows
    managed,        \* alias -> is the connection under transaction management
    dirty,          \* alias -> the managed transaction is marked dirty
    pc,             \* "idle" before the first call, then how the last call
                    \* ended: "returned" or "raised"
    ncalls,         \* calls made so far
    args,           \* the arguments of the last call: objects, keys,
                    \* skip_for_update, using
    keys,           \* local keys after line 39
    con,            \* local con: the alias of connections[using], "none" before
    key_fields,     \* local key_fields
    update_fields,  \* local update_fields
    parameters,     \* local parameters
    sql,            \* local sql
    result,         \* "none", "ok", "AssertionError", "DatabaseError"
    log,            \* what the last call did to the connections, in order:
                    \* <<operation, alias>>
    pre,            \* db and dirty when the last call started
    prevResult,     \* result of the call before the last one
    src,            \* the UPDATE's join choice of the executed statement
    ins             \* the new_values rows the executed statement inserted

vars == <<model, db, managed, dirty, pc, ncalls, args, keys, con, key_fields,
          update_fields, parameters, sql, result, log, pre, prevResult, src, ins>>

\* A row of the table as the database holds it before the first call.
DbRows == [sku : StoredSkuVals, qty : StoredQtyVals, created : StoredCreatedVals]

\* Rows s stored in the table of m: serial columns numbered in insertion order.
Stored(m, s) ==
    [r \in 1..Len(s) |->
        [c \in Columns(m) |->
            IF m.fields[ColIndex(Names(m.fields), c)].auto THEN r ELSE s[r][c]]]

InitTables(m) ==
    {t \in {Stored(m, s) : s \in SeqsUpTo(DbRows, MaxRows)} : PkOk(m, t)}

NoArgs == [objects |-> <<>>, keys |-> <<>>, skip_for_update |-> <<>>, using |-> DEFAULT_DB_ALIAS]

Init ==
    /\ model \in Models
    /\ \E t \in InitTables(model) : db = [a \in Aliases |-> t]
    /\ \E b \in BOOLEAN : managed = [a \in Aliases |-> b]
    /\ dirty = [a \in Aliases |-> FALSE]
    /\ pc = "idle"
    /\ ncalls = 0
    /\ args = NoArgs
    /\ keys = <<>>
    /\ con = "none"
    /\ key_fields = <<>>
    /\ update_fields = <<>>
    /\ parameters = <<>>
    /\ sql = NoSql
    /\ result = "none"
    /\ log = <<>>
    /\ pre = [db |-> db, dirty |-> dirty]
    /\ prevResult = "none"
    /\ src = <<>>
    /\ ins = <<>>

\* ------------------------------------------------- insert_or_update_many
\* The call runs to its end in one step; the four ways it can end follow the
\* function's text from top to bottom.

\* Faulty variant of lines 36-40: the connection looked up before the test.
ReturnsEmpty_AfterLookup(a) ==
    /\ a.objects = <<>>
    /\ keys' = a.keys
    /\ con' = a.using
    /\ key_fields' = <<>>
    /\ update_fields' = <<>>
    /\ parameters' = <<>>
    /\ sql' = NoSql
    /\ log' = <<<<"lookup", a.using>>>>
    /\ pc' = "returned"
    /\ result' = "ok"
    /\ src' = <<>>
    /\ ins' = <<>>
    /\ UNCHANGED <<db, dirty>>

\* lines 36-37: if not objects: return
ReturnsEmpty(a) ==
    /\ a.objects = <<>>
    /\ keys' = a.keys
    /\ con' = "none"
    /\ key_fields' = <<>>
    /\ update_fields' = <<>>
    /\ parameters' = <<>>
    /\ sql' = NoSql
    /\ log' = <<>>
    /\ pc' = "returned"
    /\ result' = "ok"
    /\ src' = <<>>
    /\ ins' = <<>>
    /\ UNCHANGED <<db, dirty>>

\* lines 39-51: the keys, the connection, the key fields
Resolved(a) ==
    /\ a.objects # <<>>
    /\ keys' = KeysOrPk(model, a.keys)
    /\ con' = a.using
    /\ key_fields' = KeyFieldsOf(model, keys')

\* line 56: assert key_fields, "Empty key fields"
AssertKeyFields(kf) == kf # <<>>

RaisesAssertion(a) ==
    /\ Resolved(a)
    /\ ~AssertKeyFields(key_fields')
    /\ update_fields' = <<>>
    /\ parameters' = <<>>
    /\ sql' = NoSql
    /\ log' = <<<<"lookup", con'>>>>
    /\ pc' = "raised"
    /\ result' = "AssertionError"
    /\ src' = <<>>
    /\ ins' = <<>>
    /\ UNCHANGED <<db, dirty>>

\* lines 59-120: the update fields, the placeholders, the parameters, the text
Built(a) ==
    /\ Resolved(a)
    /\ AssertKeyFields(key_fields')
    /\ update_fields' = UpdateFieldsOf(model, keys', a.skip_for_update)
    /\ parameters' = ParametersOf(_model_fields(model), a.objects)
    /\ sql' = SqlOf(model, _model_fields(model), key_fields', update_fields',
                    PlaceholdersOf(TuplePlaceholder(_model_fields(model)),
                                   Len(a.objects)))

\* lines 124-125, the statement failing: cursor.execute raises, the statement
\* has changed nothing and line 127 is not reached.  Any execution can fail
\* (the connection is lost); a statement with no outcome always does.
ExecuteRaises(a) ==
    /\ Built(a)
    /\ log' = <<<<"lookup", con'>>, <<"execute", con'>>>>
    /\ pc' = "raised"
    /\ result' = "DatabaseError"
    /\ src' = <<>>
    /\ ins' = <<>>
    /\ UNCHANGED <<db, dirty>>

\* line 127: transaction.commit_unless_managed(), called without using: it
\* acts on the default connection, committing when that connection is not
\* managed and marking its transaction dirty when it is.
CommitUnlessManaged(lg) ==
    IF ~managed[DEFAULT_DB_ALIAS]
    THEN log' = Append(lg, <<"commit", DEFAULT_DB_ALIAS>>) /\ UNCHANGED dirty
    ELSE dirty' = [dirty EXCEPT ![DEFAULT_DB_ALIAS] = TRUE] /\ log' = lg

\* lines 124-127, the statement succeeding: it takes effect as a whole, then
\* commit_unless_managed runs and the function returns.
ExecuteOk(a) ==
    /\ Built(a)
    /\ \E o \in ExecOutcomes(model, db[con'], sql', parameters') :
          /\ db' = [db EXCEPT ![con'] = o.table]
          /\ src' = o.choice
          /\ ins' = o.inserted
    /\ CommitUnlessManaged(<<<<"lookup", con'>>, <<"execute", con'>>>>)
    /\ pc' = "returned"
    /\ result' = "ok"

insert_or_update_many(a) ==
    /\ ncalls' = ncalls + 1
    /\ args' = a
    /\ pre' = [db |-> db, dirty |-> dirty]
    /\ prevResult' = result
    /\ UNCHANGED <<model, managed>>
    /\ \/ ReturnsEmpty(a)
       \/ RaisesAssertion(a)
       \/ ExecuteRaises(a)
       \/ ExecuteOk(a)

\* The calls made: every list of objects, choice of keys and of skipped fields
\* on the default database, and the shorter lists on the other databases.
CallArgs ==
    [objects : SeqsUpTo(Objects, MaxObjects), keys : KeyChoices,
     skip_for_update : SkipChoices, using : {DEFAULT_DB_ALIAS}]
    \cup
    [objects : SeqsUpTo(Objects, MaxOtherObjects), keys : KeyChoices,
     skip_for_update : SkipChoices, using : Aliases \ {DEFAULT_DB_ALIAS}]

\* The first call.
Invoke ==
    /\ ncalls = 0
    /\ \E a \in CallArgs : insert_or_update_many(a)

\* The caller makes the same call again after it has returned normally.
Repeat ==
    /\ ncalls \in 1..(MaxCalls - 1)
    /\ pc = "returned"
    /\ insert_or_update_many(args)

Next ==
    \/ Invoke
    \/ Repeat

Spec == Init /\ [][Next]_vars

\* ------------------------------------------------------------ the properties
\* The words of the properties, stated over the arguments of the call and the
\* tables before and after it, not over the function's own locals.

Returned == pc = "returned" /\ result = "ok"
Ended == pc \in {"returned", "raised"}

Tbl == db[args.using]           \* the table of the selected database, now
PreTbl == pre.db[args.using]    \* and when the call started
N == Len(args.objects)

\* The names of the fields that are not the auto-generated identity column.
NonIdentityNames == {f.name : f \in {g \in Range(model.fields) : ~g.auto}}

\* keys, the primary key's name standing in for keys omitted or empty
GivenKeys == IF args.keys = <<>> THEN {model.pk} ELSE Range(args.keys)

\* The resolved key set and the update fields as the specification words them.
ResolvedKeyNames == NonIdentityNames \cap GivenKeys
ExpectedUpdateNames == (NonIdentityNames \ GivenKeys) \ Range(args.skip_for_update)

\* The value of field c of object o as a column value (None is stored as NULL).
Prepared(o, c) == IF o[c] = None THEN NULL ELSE o[c]

\* Row and object have the same key-field tuple under SQL's "=".
KeySqlEq(row, o) == \A c \in ResolvedKeyNames : SqlEq(row[c], Prepared(o, c))

DistinctKeys ==
    LET K == ResolvedKeyNames
    IN  \A i, j \in 1..N : i # j =>
            \E c \in K : Prepared(args.objects[i], c) # Prepared(args.objects[j], c)
NoNullKeys ==
    LET K == ResolvedKeyNames
    IN  \A i \in 1..N : \A c \in K : Prepared(args.objects[i], c) # NULL

\* The statement executions and commits of the last call, in order.
Interactions == SelectSeq(log, LAMBDA e : e[1] \in {"execute", "commit"})

\* C2: a call with an empty list of objects returns without error and does
\* nothing to any connection: no lookup, no execution, no commit; the tables
\* and the transaction state are as before.
C2_EmptyIsNoOp ==
    (Ended /\ args.objects = <<>>) =>
        /\ Returned
        /\ log = <<>>
        /\ con = "none"
        /\ db = pre.db
        /\ dirty = pre.dirty

C2_Witness ==
    /\ Returned
    /\ args.objects = <<>>
    /\ PreTbl # <<>>
    /\ ~managed[DEFAULT_DB_ALIAS]

\* C3: with objects to write and an empty resolved key set, the call fails
\* with the assertion "Empty key fields" before the statement is built,
\* executed or committed, and the tables are unchanged.
C3_EmptyKeysRaise ==
    (Ended /\ args.objects # <<>> /\ ResolvedKeyNames = {}) =>
        /\ pc = "raised"
        /\ result = "AssertionError"
        /\ sql = NoSql
        /\ parameters = <<>>
        /\ Interactions = <<>>
        /\ db = pre.db
        /\ dirty = pre.dirty

\* The primary key is the identity column and keys was omitted.
C3_Witness ==
    /\ result = "AssertionError"
    /\ args.objects # <<>>
    /\ args.keys = <<>>
    /\ model.pk \notin NonIdentityNames

\* C8: a call that gets as far as the statement executes it once on the
\* connection selected by using and then, only if the execution succeeded and
\* that connection is not managed, commits once on that same connection; an
\* execution that raises is followed by nothing.
C8_ExecuteThenCommitSameConnection ==
    (Ended /\ args.objects # <<>> /\ ResolvedKeyNames # {}) =>
        Interactions =
            IF result = "ok" /\ ~managed[args.using]
            THEN <<<<"execute", args.using>>, <<"commit", args.using>>>>
            ELSE <<<<"execute", args.using>>>>

\* C9: the statement has one tuple of placeholders per object, each with one
\* cast placeholder per non-identity field, and the parameters are the
\* prepared values object by object, field by field, in the order of the
\* new_values and INSERT column lists.
C9_ParametersLineUp ==
    (Ended /\ sql # NoSql) =>
        LET fields == SelectSeq(model.fields, LAMBDA f : ~f.auto)
            F == Len(fields)
        IN  /\ Len(sql.values) = N
            /\ Len(parameters) = N * F
            /\ Len(sql.new_values_cols) = F
            /\ Len(sql.insert_cols) = F
            /\ \A i \in 1..N :
                  /\ Len(sql.values[i]) = F
                  /\ \A j \in 1..F :
                        /\ sql.values[i][j] = [marker |-> "%s", cast |-> fields[j].db_type]
                        /\ parameters[(i - 1) * F + j] = Prepared(args.objects[i], fields[j].name)
                        /\ sql.new_values_cols[j] = fields[j].name
                        /\ sql.insert_cols[j] = fields[j].name

\* Two objects that differ in every field, one with a None.
C9_Witness ==
    /\ Returned
    /\ N = 2
    /\ args.objects[1].sku = None
    /\ args.objects[2].sku # None
    /\ args.objects[1].qty # args.objects[2].qty
    /\ Len(parameters) = 6

\* C10: when every non-identity field is a key or is skipped, the call raises
\* no assertion: the statement is built with an empty SET list and executed,
\* and the call fails with the database's error.
C10_EmptyUpdateFieldsReachExecute ==
    (Ended /\ args.objects # <<>> /\ ResolvedKeyNames # {} /\ ExpectedUpdateNames = {}) =>
        /\ result # "AssertionError"
        /\ sql # NoSql
        /\ sql.set_ = <<>>
        /\ Interactions = <<<<"execute", args.using>>>>
        /\ result = "DatabaseError"
        /\ db = pre.db

C10_Witness ==
    /\ result = "DatabaseError"
    /\ ExpectedUpdateNames = {}
    /\ ResolvedKeyNames # {}
    /\ N = 2

\* The rows of table t with the key-field tuple of object o, by plain equality
\* of the tuples and by SQL's "=" on every key field.
RowsOf(t, o) ==
    LET K == ResolvedKeyNames
    IN  {r \in 1..Len(t) : \A c \in K : t[r][c] = Prepared(o, c)}
SqlRowsOf(t, o) ==
    LET K == ResolvedKeyNames
    IN  {r \in 1..Len(t) : \A c \in K : SqlEq(t[r][c], Prepared(o, c))}

\* A call that wrote: it had objects and returned normally.
Wrote == Returned /\ args.objects # <<>>

\* C1 as stated: whatever the table held, after a call with pairwise distinct
\* key tuples every object's key tuple is that of exactly one row, whose
\* other non-identity fields are the object's.
C1_RoundTripAnyTable ==
    (Wrote /\ DistinctKeys) =>
        \A i \in 1..N :
            /\ Cardinality(RowsOf(Tbl, args.objects[i])) = 1
            /\ \A r \in RowsOf(Tbl, args.objects[i]) :
                  \A c \in NonIdentityNames \ ResolvedKeyNames :
                      Tbl[r][c] = Prepared(args.objects[i], c)

\* C1 amended: when the key tuples of the objects are pairwise distinct and
\* hold no NULL, and no two rows of the table before the call share the key
\* tuple of an object, then after the call every object's key tuple is that
\* of exactly one row; if the row was there before, its update fields are
\* the object's (the fields named in skip_for_update keep their values), and
\* if it is new, all its non-identity fields are the object's.
C1_RoundTrip ==
    (/\ Wrote
     /\ DistinctKeys
     /\ NoNullKeys
     /\ \A i \in 1..N : Cardinality(RowsOf(PreTbl, args.objects[i])) <= 1) =>
        \A i \in 1..N :
            /\ Cardinality(RowsOf(Tbl, args.objects[i])) = 1
            /\ \A r \in RowsOf(Tbl, args.objects[i]) :
                  \A c \in (IF r <= Len(PreTbl) THEN ExpectedUpdateNames
                            ELSE NonIdentityNames \ ResolvedKeyNames) :
                      Tbl[r][c] = Prepared(args.objects[i], c)

\* One object updated a row that was there, the other was inserted.
C1_Witness ==
    /\ Wrote
    /\ N = 2
    /\ DistinctKeys
    /\ NoNullKeys
    /\ Len(PreTbl) = 1
    /\ RowsOf(PreTbl, args.objects[1]) = {1}
    /\ PreTbl[1].qty # args.objects[1].qty
    /\ Len(Tbl) = 2

\* C4 as stated: the same call made again leaves the tables as the first
\* call left them and inserts nothing.
C4_IdempotentAnyBatch ==
    (ncalls >= 2 /\ Ended /\ prevResult = "ok") =>
        /\ db = pre.db
        /\ ins = <<>>

\* C4 amended: when the key tuples of the objects are pairwise distinct and
\* hold no NULL, the same call made again after a successful first call
\* leaves the tables as the first call left them and inserts nothing.
C4_Idempotent ==
    (ncalls >= 2 /\ Ended /\ prevResult = "ok" /\ DistinctKeys /\ NoNullKeys) =>
        /\ db = pre.db
        /\ ins = <<>>

\* The second call updated the two rows the first call had inserted.
C4_Witness ==
    /\ ncalls = 2
    /\ Wrote
    /\ prevResult = "ok"
    /\ N = 2
    /\ DistinctKeys
    /\ NoNullKeys
    /\ Len(Tbl) = 2
    /\ Len(src) = 2
    /\ \A r \in 1..Len(src) : src[r] # 0

\* How many rows the statement updated from object i, and how many rows it
\* inserted for it.
UpdatesFrom(i) == Cardinality({r \in 1..Len(src) : src[r] = i})
InsertsOf(i) == Cardinality({k \in 1..Len(ins) : ins[k] = i})

\* What the statement recorded is what the table shows: the rows that were
\* there keep their place, a row updated from object i carries i's update
\* fields, and the k-th new row carries the fields of the k-th inserted object.
TableShowsWrites ==
    LET upd == ExpectedUpdateNames
        all == NonIdentityNames
    IN  /\ Len(src) = Len(PreTbl)
        /\ Len(Tbl) = Len(PreTbl) + Len(ins)
        /\ \A r \in 1..Len(PreTbl) :
              IF src[r] = 0 THEN Tbl[r] = PreTbl[r]
              ELSE /\ src[r] \in 1..N
                   /\ \A c \in DOMAIN Tbl[r] :
                         Tbl[r][c] = IF c \in upd
                                     THEN Prepared(args.objects[src[r]], c)
                                     ELSE PreTbl[r][c]
        /\ \A k \in 1..Len(ins) :
              /\ ins[k] \in 1..N
              /\ \A c \in all :
                    Tbl[Len(PreTbl) + k][c] = Prepared(args.objects[ins[k]], c)

\* C5 as stated: an object whose key tuple is that of an existing row is
\* applied as an update exactly once and inserts nothing, any other object
\* inserts exactly one row and updates nothing, and the table grows by the
\* number of objects that matched no row.
C5_OneBranchEach ==
    Wrote =>
        /\ TableShowsWrites
        /\ \A i \in 1..N :
              IF RowsOf(PreTbl, args.objects[i]) # {}
              THEN UpdatesFrom(i) = 1 /\ InsertsOf(i) = 0
              ELSE UpdatesFrom(i) = 0 /\ InsertsOf(i) = 1
        /\ Len(Tbl) = Len(PreTbl)
              + Cardinality({i \in 1..N : RowsOf(PreTbl, args.objects[i]) = {}})

\* C5 amended: matching being SQL's "=" on every key field (a NULL matches
\* nothing): an object that matches rows of the table inserts nothing, and
\* every row it matches is updated exactly once, from an object of the call
\* with that key tuple (from the object itself when the key tuples of the
\* call are pairwise distinct); an object that matches no row inserts
\* exactly one row and updates nothing; the table grows by the number of
\* objects that matched no row.
C5_OneBranchEachSqlMatch ==
    Wrote =>
        LET distinct == DistinctKeys
            matched == [i \in 1..N |-> SqlRowsOf(PreTbl, args.objects[i])]
        IN  /\ TableShowsWrites
            /\ \A i \in 1..N :
                  IF matched[i] # {}
                  THEN /\ InsertsOf(i) = 0
                       /\ \A r \in matched[i] :
                             /\ src[r] # 0
                             /\ r \in matched[src[r]]
                             /\ distinct => src[r] = i
                  ELSE UpdatesFrom(i) = 0 /\ InsertsOf(i) = 1
            /\ Len(Tbl) = Len(PreTbl) + Cardinality({i \in 1..N : matched[i] = {}})

\* Of two objects one matched the row of the table and the other did not.
C5_Witness ==
    /\ Wrote
    /\ N = 2
    /\ Len(PreTbl) = 1
    /\ UpdatesFrom(2) = 1
    /\ InsertsOf(1) = 1
    /\ InsertsOf(2) = 0

\* How many rows of table t equal row x.
Copies(t, x) == Cardinality({r \in 1..Len(t) : t[r] = x})

\* C6: a row of the table that no object of the call matches on the key
\* fields is left as it was, in its place, neither removed nor duplicated;
\* the tables of the other databases are untouched.
C6_UnmatchedRowsUnchanged ==
    Ended =>
        /\ \A a \in Aliases \ {args.using} : db[a] = pre.db[a]
        /\ Len(Tbl) >= Len(PreTbl)
        /\ LET K == ResolvedKeyNames
           IN  \A r \in 1..Len(PreTbl) :
                 (\A i \in 1..N :
                     ~\A c \in K : SqlEq(PreTbl[r][c], Prepared(args.objects[i], c))) =>
                     /\ Tbl[r] = PreTbl[r]
                     /\ Copies(Tbl, PreTbl[r]) = Copies(PreTbl, PreTbl[r])

\* The first row was matched and changed, the second was not matched.
C6_Witness ==
    /\ Wrote
    /\ Len(PreTbl) = 2
    /\ Tbl[1] # PreTbl[1]
    /\ \A i \in 1..N : ~KeySqlEq(PreTbl[2], args.objects[i])
    /\ Len(Tbl) = 3

\* C7: the update fields are the non-identity fields that are neither keys
\* nor named in skip_for_update; a skipped field is in no SET assignment and
\* an updated row keeps its value of it, and it is in the INSERT column list
\* and an inserted row takes the object's value of it.
C7_SkippedFieldsKeptOnUpdate ==
    (Ended /\ sql # NoSql) =>
        /\ Range(Names(update_fields)) = ExpectedUpdateNames
        /\ Range(sql.set_) = ExpectedUpdateNames
        /\ Range(sql.set_) \cap Range(args.skip_for_update) = {}
        /\ (Range(args.skip_for_update) \cap NonIdentityNames) \subseteq Range(sql.insert_cols)
        /\ Returned =>
              /\ Len(src) = Len(PreTbl)
              /\ \A r \in 1..Len(PreTbl) :
                    \A c \in Range(args.skip_for_update) \cap NonIdentityNames :
                        Tbl[r][c] = PreTbl[r][c]
              /\ \A k \in 1..Len(ins) :
                    \A c \in Range(args.skip_for_update) \cap NonIdentityNames :
                        Tbl[Len(PreTbl) + k][c] = Prepared(args.objects[ins[k]], c)

\* created is skipped: the updated row keeps its created and takes the new
\* qty, the inserted row takes the object's created.
C7_Witness ==
    /\ Wrote
    /\ args.skip_for_update = <<"created">>
    /\ Len(PreTbl) = 1
    /\ src = <<1>>
    /\ Tbl[1].created # args.objects[1].created
    /\ Tbl[1].qty # PreTbl[1].qty
    /\ Len(ins) = 1
    /\ Tbl[2].created = args.objects[ins[1]].created
====
